---- MODULE Spec2Model ----
(***************************************************************************)
(* A model of scripts/clean_har.py: the command-line entry point, the      *)
(* clean_har function, the JSON text it reads and writes, and the file it  *)
(* rewrites in place.                                                      *)
(*                                                                         *)
(* A Python str is modelled as a sequence of atoms, where the atom "/" is  *)
(* the slash character and every other atom is a maximal run of non-slash  *)
(* characters, so that str.split('/') is computed and not assumed.  A JSON *)
(* text is a sequence of tokens; json.load is a parser over the tokens and *)
(* json.dump a serialiser producing them.                                  *)
(***************************************************************************)
EXTENDS Integers, Sequences, FiniteSets, TLC

(* ---------------------------------------------------------------- bounds *)
\* longest log.entries array (and longest already-cleaned array) generated
MaxEntries == 2
\* largest len(sys.argv) tried (the program name plus up to two arguments)
MaxArgc == 3
\* number of successive invocations of the program on the same file
MaxRuns == 2

(* ----------------------------------------------------------- Python str *)
SLASH == "/"

\* the str 'GET' of line 16
GET == <<"GET">>
\* the str 'favicon.ico' of line 19
FAVICON == <<"favicon.ico">>

\* str.split('/'): the segments between the slashes, empty ones included
RECURSIVE SplitFrom(_, _, _)
SplitFrom(s, k, cur) ==
    IF k > Len(s) THEN <<cur>>
    ELSE IF s[k] = SLASH THEN <<cur>> \o SplitFrom(s, k + 1, <<>>)
    ELSE SplitFrom(s, k + 1, Append(cur, s[k]))

Split(s) == SplitFrom(s, 1, <<>>)

\* s.split('/')[-1]
LastSegment(s) == LET parts == Split(s) IN parts[Len(parts)]

(* ---------------------------------------------------------- JSON values *)
\* the Python objects json.load builds: str, None, list, dict.  A dict is
\* kept as its alternating key, value sequence in document order.
Str(s) == [t |-> "str", s |-> s, items |-> <<>>]
Null == [t |-> "null", s |-> <<>>, items |-> <<>>]
Arr(xs) == [t |-> "arr", s |-> <<>>, items |-> xs]
Obj(kvs) == [t |-> "obj", s |-> <<>>, items |-> kvs]

\* key in d, for a dict d
HasKey(d, key) ==
    \E k \in 1..(Len(d.items) \div 2) : d.items[2 * k - 1] = Str(key)

\* d[key] for a dict d that has the key (a repeated key keeps its last value)
Lookup(d, key) ==
    LET ks == {k \in 1..(Len(d.items) \div 2) : d.items[2 * k - 1] = Str(key)}
        last == CHOOSE k \in ks : \A j \in ks : j <= k
    IN d.items[2 * last]

\* d.get(key, default)
Get(d, key, default) == IF HasKey(d, key) THEN Lookup(d, key) ELSE default

(* ------------------------------------------------------------ JSON text *)
\* a token of the text: punctuation (or the literal null), or a string literal
P(c) == [k |-> "p", x |-> <<c>>]
S(s) == [k |-> "s", x |-> s]

\* json.dump: the text of a value
RECURSIVE Dumps(_), DumpsArr(_, _), DumpsObj(_, _)
DumpsArr(xs, k) ==
    IF k > Len(xs) THEN <<>>
    ELSE (IF k > 1 THEN <<P(",")>> ELSE <<>>) \o Dumps(xs[k]) \o DumpsArr(xs, k + 1)

DumpsObj(kvs, k) ==
    IF 2 * k > Len(kvs) THEN <<>>
    ELSE (IF k > 1 THEN <<P(",")>> ELSE <<>>)
         \o Dumps(kvs[2 * k - 1]) \o <<P(":")>> \o Dumps(kvs[2 * k])
         \o DumpsObj(kvs, k + 1)

Dumps(v) ==
    CASE v.t = "str" -> <<S(v.s)>>
      [] v.t = "null" -> <<P("null")>>
      [] v.t = "arr" -> <<P("[")>> \o DumpsArr(v.items, 1) \o <<P("]")>>
      [] v.t = "obj" -> <<P("{")>> \o DumpsObj(v.items, 1) \o <<P("}")>>

\* json.load: a recursive-descent parse of the text from token i
ParseFail == [ok |-> FALSE, v |-> Null, next |-> 0]
ParseOk(v, n) == [ok |-> TRUE, v |-> v, next |-> n]
TokIs(toks, i, c) == i <= Len(toks) /\ toks[i] = P(c)

RECURSIVE ParseValue(_, _), ParseArr(_, _, _), ParseObj(_, _, _)
ParseArr(toks, i, acc) ==
    LET r == ParseValue(toks, i) IN
    IF ~r.ok THEN ParseFail
    ELSE IF TokIs(toks, r.next, ",") THEN ParseArr(toks, r.next + 1, Append(acc, r.v))
    ELSE IF TokIs(toks, r.next, "]") THEN ParseOk(Arr(Append(acc, r.v)), r.next + 1)
    ELSE ParseFail

ParseObj(toks, i, acc) ==
    IF ~(i <= Len(toks) /\ toks[i].k = "s" /\ TokIs(toks, i + 1, ":")) THEN ParseFail
    ELSE LET r == ParseValue(toks, i + 2)
             kvs == acc \o <<Str(toks[i].x), r.v>>
         IN IF ~r.ok THEN ParseFail
            ELSE IF TokIs(toks, r.next, ",") THEN ParseObj(toks, r.next + 1, kvs)
            ELSE IF TokIs(toks, r.next, "}") THEN ParseOk(Obj(kvs), r.next + 1)
            ELSE ParseFail

ParseValue(toks, i) ==
    IF i > Len(toks) THEN ParseFail
    ELSE IF toks[i].k = "s" THEN ParseOk(Str(toks[i].x), i + 1)
    ELSE IF TokIs(toks, i, "null") THEN ParseOk(Null, i + 1)
    ELSE IF TokIs(toks, i, "[") THEN
        IF TokIs(toks, i + 1, "]") THEN ParseOk(Arr(<<>>), i + 2)
        ELSE ParseArr(toks, i + 1, <<>>)
    ELSE IF TokIs(toks, i, "{") THEN
        IF TokIs(toks, i + 1, "}") THEN ParseOk(Obj(<<>>), i + 2)
        ELSE ParseObj(toks, i + 1, <<>>)
    ELSE ParseFail

\* the whole text must be one value (trailing text is "Extra data")
Loads(toks) ==
    LET r == ParseValue(toks, 1) IN
    IF r.ok /\ r.next = Len(toks) + 1 THEN r ELSE ParseFail

(* ------------------------------------------------- the filter, per entry *)
\* v[key] on a parsed value: a dict without the key raises KeyError, a value
\* that is no dict (str, list, None) raises TypeError
Subscript(v, key) ==
    IF v.t # "obj" THEN [err |-> "TypeError", v |-> Null]
    ELSE IF ~HasKey(v, key) THEN [err |-> "KeyError", v |-> Null]
    ELSE [err |-> "none", v |-> Lookup(v, key)]

\* entry['request'][field]
RequestField(entry, field) ==
    LET r == Subscript(entry, <<"request">>) IN
    IF r.err # "none" THEN r ELSE Subscript(r.v, field)

\* a variant of IsFavicon that inspects the URL's last segment
IsFavicon_Url(entry) == LastSegment(RequestField(entry, <<"url">>).v.s) = FAVICON

\* method.split('/')[-1] == 'favicon.ico', for the method the guard of line 16
\* let through (a str equal to 'GET')
IsFavicon(entry) == LastSegment(RequestField(entry, <<"method">>).v.s) = FAVICON

\* a variant of EntryOutcome that compares the method without regard to case
EntryOutcome_IgnoreCase(entry) ==
    LET m == RequestField(entry, <<"method">>)
        u == RequestField(entry, <<"url">>)
    IN IF m.err # "none" THEN [act |-> "raise", at |-> 16, err |-> m.err, url |-> Null]
       ELSE IF m.v \notin {Str(GET), Str(<<"get">>)}
            THEN [act |-> "continue", at |-> 17, err |-> "none", url |-> Null]
       ELSE IF u.err # "none" THEN [act |-> "raise", at |-> 22, err |-> u.err, url |-> Null]
       ELSE [act |-> "append", at |-> 22, err |-> "none", url |-> u.v]

\* a variant of EntryOutcome that passes over an entry with a missing field
EntryOutcome_SkipMalformed(entry) ==
    LET m == RequestField(entry, <<"method">>)
        u == RequestField(entry, <<"url">>)
    IN IF m.err # "none" THEN [act |-> "continue", at |-> 17, err |-> "none", url |-> Null]
       ELSE IF m.v # Str(GET) THEN [act |-> "continue", at |-> 17, err |-> "none", url |-> Null]
       ELSE IF u.err # "none" THEN [act |-> "continue", at |-> 17, err |-> "none", url |-> Null]
       ELSE [act |-> "append", at |-> 22, err |-> "none", url |-> u.v]

\* one iteration of the loop body, lines 16-22: what it does with the entry
EntryOutcome(entry) ==
    LET m == RequestField(entry, <<"method">>)
        u == RequestField(entry, <<"url">>)
    IN IF m.err # "none" THEN [act |-> "raise", at |-> 16, err |-> m.err, url |-> Null]
       ELSE IF m.v # Str(GET) THEN [act |-> "continue", at |-> 17, err |-> "none", url |-> Null]
       ELSE IF IsFavicon(entry) THEN [act |-> "continue", at |-> 20, err |-> "none", url |-> Null]
       ELSE IF u.err # "none" THEN [act |-> "raise", at |-> 22, err |-> u.err, url |-> Null]
       ELSE [act |-> "append", at |-> 22, err |-> "none", url |-> u.v]

\* what a for loop iterates over: the items of a list, the keys of a dict, the
\* characters of a str (one str per atom here: only their being str matters);
\* None is not iterable
IterOf(v) ==
    CASE v.t = "arr" -> [err |-> "none", seq |-> v.items]
      [] v.t = "obj" -> [err |-> "none",
                         seq |-> [k \in 1..(Len(v.items) \div 2) |-> v.items[2 * k - 1]]]
      [] v.t = "str" -> [err |-> "none", seq |-> [k \in 1..Len(v.s) |-> Str(<<v.s[k]>>)]]
      [] v.t = "null" -> [err |-> "TypeError", seq |-> <<>>]

\* a variant of EntriesOf that subscripts: har_data['log']['entries']
EntriesOf_Subscript(d) ==
    LET log == Subscript(d, <<"log">>) IN
    IF log.err # "none" THEN [err |-> log.err, seq |-> <<>>]
    ELSE LET es == Subscript(log.v, <<"entries">>) IN
         IF es.err # "none" THEN [err |-> es.err, seq |-> <<>>] ELSE IterOf(es.v)

\* a variant of EntriesOf that takes a value that is no dict for an empty one
EntriesOf_Lenient(d) ==
    IF d.t # "obj" THEN [err |-> "none", seq |-> <<>>]
    ELSE LET log == Get(d, <<"log">>, Obj(<<>>)) IN
         IF log.t # "obj" THEN [err |-> "none", seq |-> <<>>]
         ELSE IterOf(Get(log, <<"entries">>, Arr(<<>>)))

\* har_data.get('log', {}).get('entries', []) and the start of its iteration:
\* .get on a value that is no dict raises AttributeError
EntriesOf(d) ==
    IF d.t # "obj" THEN [err |-> "AttributeError", seq |-> <<>>]
    ELSE LET log == Get(d, <<"log">>, Obj(<<>>)) IN
         IF log.t # "obj" THEN [err |-> "AttributeError", seq |-> <<>>]
         ELSE IterOf(Get(log, <<"entries">>, Arr(<<>>)))

\* a variant of UsageError that only rejects a missing argument
UsageError_TooFew(n) == n < 2

\* len(sys.argv) != 2
UsageError(n) == n # 2

(* ------------------------------------------------------------ the inputs *)
KLog == Str(<<"log">>)
KEntries == Str(<<"entries">>)
KRequest == Str(<<"request">>)
KMethod == Str(<<"method">>)
KUrl == Str(<<"url">>)

Methods == {GET, <<"POST">>, <<"get">>}
Urls == {<<"https:", SLASH, SLASH, "a.com", SLASH>>,
         <<"https:", SLASH, SLASH, "a.com", SLASH, "favicon.ico">>}

\* entries as a HAR capture holds them, and the malformed ones
WellFormedEntries ==
    {Obj(<<KRequest, Obj(<<KMethod, Str(m), KUrl, Str(u)>>)>>) : m \in Methods, u \in Urls}
MalformedEntries ==
    {Obj(<<>>), Obj(<<KRequest, Obj(<<>>)>>)}
    \cup {Obj(<<KRequest, Obj(<<KMethod, Str(m)>>)>>) : m \in Methods}
    \cup {Obj(<<KRequest, Obj(<<KUrl, Str(u)>>)>>) : u \in {<<"https:", SLASH, SLASH, "a.com", SLASH>>}}
Entries == WellFormedEntries \cup MalformedEntries

SeqsUpTo(X, n) == UNION {[1..k -> X] : k \in 0..n}

HarDocs ==
    {Obj(<<>>), Obj(<<KLog, Null>>), Obj(<<KLog, Obj(<<>>)>>),
     Obj(<<KLog, Obj(<<KEntries, Null>>)>>)}
    \cup {Obj(<<KLog, Obj(<<KEntries, Arr(es)>>)>>) : es \in SeqsUpTo(Entries, MaxEntries)}
\* files the cleaner has already rewritten: arrays of URL strings
CleanedDocs == {Arr(us) : us \in SeqsUpTo({Str(u) : u \in Urls}, MaxEntries)}
\* texts that are not JSON: an empty file, cut-off documents
BrokenTexts == {<<>>, <<P("{")>>, <<P("["), S(GET), P(",")>>}

InitialFiles == {Dumps(d) : d \in HarDocs \cup CleanedDocs} \cup BrokenTexts

USAGE == "Usage: python clean_har.py <input_har_file>"

(* ------------------------------------------------------------- the state *)
VARIABLES
    file,             \* the text of the file at the path given on the command line
    file0,            \* its text when the current invocation started
    run,              \* invocations started so far
    exits,            \* the exit code of each finished invocation
    argc,             \* len(sys.argv) of the current invocation
    pc,               \* where the current invocation is
    stdout,           \* lines printed by the current invocation
    calls,            \* calls of clean_har made by the current invocation
    opens,            \* calls of open() made by the current invocation
    handles,          \* modes of the file objects currently open
    har_data,         \* the parsed document
    entries,          \* the sequence the for loop iterates over
    idx,              \* position of the loop in entries
    cleaned_entries,  \* the output list
    pending,          \* text json.dump has yet to write
    err,              \* the exception raised, "none" if none
    errat             \* the stage that raised it

vars == <<file, file0, run, exits, argc, pc, stdout, calls, opens, handles,
          har_data, entries, idx, cleaned_entries, pending, err, errat>>

fsvars == <<file, file0>>
shvars == <<run, exits, argc>>
locals == <<har_data, entries, idx, cleaned_entries, pending>>

Init ==
    /\ file \in InitialFiles
    /\ file0 = file
    /\ run = 0
    /\ exits = <<>>
    /\ argc = 0
    /\ pc = "idle"
    /\ stdout = <<>>
    /\ calls = 0
    /\ opens = 0
    /\ handles = {}
    /\ har_data = Null
    /\ entries = <<>>
    /\ idx = 0
    /\ cleaned_entries = <<>>
    /\ pending = <<>>
    /\ err = "none"
    /\ errat = "none"

\* the shell starts the program with n - 1 arguments, on the file as it now is
Invoke(n) ==
    /\ pc \in {"idle", "exited"}
    /\ run < MaxRuns
    /\ run' = run + 1
    /\ argc' = n
    /\ file0' = file
    /\ pc' = "main"
    /\ stdout' = <<>>
    /\ calls' = 0
    /\ opens' = 0
    /\ handles' = {}
    /\ har_data' = Null
    /\ entries' = <<>>
    /\ idx' = 0
    /\ cleaned_entries' = <<>>
    /\ pending' = <<>>
    /\ err' = "none"
    /\ errat' = "none"
    /\ UNCHANGED <<file, exits>>

\* lines 30-32: wrong argument count
MainUsage ==
    /\ pc = "main"
    /\ UsageError(argc)
    /\ stdout' = Append(stdout, USAGE)
    /\ exits' = Append(exits, 1)
    /\ pc' = "exited"
    /\ UNCHANGED <<file, file0, run, argc, calls, opens, handles, locals, err, errat>>

\* lines 34-35: clean_har(sys.argv[1])
MainCall ==
    /\ pc = "main"
    /\ ~UsageError(argc)
    /\ calls' = calls + 1
    /\ pc' = "open_r"
    /\ UNCHANGED <<fsvars, shvars, stdout, opens, handles, locals, err, errat>>

\* line 11: open(input_file, 'r') succeeds
OpenReadOk ==
    /\ pc = "open_r"
    /\ opens' = opens + 1
    /\ handles' = handles \cup {"r"}
    /\ pc' = "load"
    /\ UNCHANGED <<fsvars, shvars, stdout, calls, locals, err, errat>>

\* line 11: open(input_file, 'r') raises OSError (no such file, no permission)
OpenReadFail ==
    /\ pc = "open_r"
    /\ opens' = opens + 1
    /\ err' = "OSError"
    /\ errat' = "open_r"
    /\ pc' = "raised"
    /\ UNCHANGED <<fsvars, shvars, stdout, calls, handles, locals>>

\* line 12: json.load(f) returns the document
LoadOk ==
    /\ pc = "load"
    /\ Loads(file).ok
    /\ har_data' = Loads(file).v
    /\ pc' = "close_r"
    /\ UNCHANGED <<fsvars, shvars, stdout, calls, opens, handles, entries, idx,
                   cleaned_entries, pending, err, errat>>

\* line 12: json.load(f) raises JSONDecodeError inside the with block
LoadFail ==
    /\ pc = "load"
    /\ ~Loads(file).ok
    /\ err' = "JSONDecodeError"
    /\ errat' = "load"
    /\ pc' = "unwind"
    /\ UNCHANGED <<fsvars, shvars, stdout, calls, opens, handles, locals>>

\* a variant of CloseRead after which the file is already emptied for writing
CloseRead_EmptiesFile ==
    /\ pc = "close_r"
    /\ handles' = handles \ {"r"}
    /\ file' = <<>>
    /\ pc' = "entries"
    /\ UNCHANGED <<file0, shvars, stdout, calls, opens, locals, err, errat>>

\* lines 11-12: the with block ends normally and closes the read handle
CloseRead ==
    /\ pc = "close_r"
    /\ handles' = handles \ {"r"}
    /\ pc' = "entries"
    /\ UNCHANGED <<fsvars, shvars, stdout, calls, opens, locals, err, errat>>

\* a variant of Unwind without the with statement: the file object stays open
Unwind_Leak ==
    /\ pc = "unwind"
    /\ pc' = "raised"
    /\ UNCHANGED <<fsvars, shvars, stdout, calls, opens, handles, locals, err, errat>>

\* lines 11-12 and 24-25: an exception leaves a with block, which closes its
\* file object before the exception goes on
Unwind ==
    /\ pc = "unwind"
    /\ handles' = {}
    /\ pc' = "raised"
    /\ UNCHANGED <<fsvars, shvars, stdout, calls, opens, locals, err, errat>>

\* lines 14-15: the loop starts over log.entries
GetEntriesOk ==
    /\ pc = "entries"
    /\ EntriesOf(har_data).err = "none"
    /\ cleaned_entries' = <<>>
    /\ entries' = EntriesOf(har_data).seq
    /\ idx' = 1
    /\ pc' = "loop"
    /\ UNCHANGED <<fsvars, shvars, stdout, calls, opens, handles, har_data, pending,
                   err, errat>>

\* line 15: the lookup or the iteration raises
GetEntriesRaise ==
    /\ pc = "entries"
    /\ EntriesOf(har_data).err # "none"
    /\ cleaned_entries' = <<>>
    /\ err' = EntriesOf(har_data).err
    /\ errat' = "entries"
    /\ pc' = "raised"
    /\ UNCHANGED <<fsvars, shvars, stdout, calls, opens, handles, har_data, entries,
                   idx, pending>>

\* lines 16-20: the entry is passed over
LoopContinue ==
    /\ pc = "loop"
    /\ idx <= Len(entries)
    /\ EntryOutcome(entries[idx]).act = "continue"
    /\ idx' = idx + 1
    /\ UNCHANGED <<fsvars, shvars, pc, stdout, calls, opens, handles, har_data, entries,
                   cleaned_entries, pending, err, errat>>

\* line 22: the entry's URL is appended
LoopAppend ==
    /\ pc = "loop"
    /\ idx <= Len(entries)
    /\ EntryOutcome(entries[idx]).act = "append"
    /\ cleaned_entries' = Append(cleaned_entries, EntryOutcome(entries[idx]).url)
    /\ idx' = idx + 1
    /\ UNCHANGED <<fsvars, shvars, pc, stdout, calls, opens, handles, har_data, entries,
                   pending, err, errat>>

\* lines 16-22: a subscript raises
LoopRaise ==
    /\ pc = "loop"
    /\ idx <= Len(entries)
    /\ EntryOutcome(entries[idx]).act = "raise"
    /\ err' = EntryOutcome(entries[idx]).err
    /\ errat' = "loop"
    /\ pc' = "raised"
    /\ UNCHANGED <<fsvars, shvars, stdout, calls, opens, handles, locals>>

\* line 15: the sequence is exhausted
LoopDone ==
    /\ pc = "loop"
    /\ idx > Len(entries)
    /\ pc' = "open_w"
    /\ UNCHANGED <<fsvars, shvars, stdout, calls, opens, handles, locals, err, errat>>

\* a variant of OpenWriteOk that opens without truncating (mode 'r+')
OpenWriteOk_NoTruncate ==
    /\ pc = "open_w"
    /\ opens' = opens + 1
    /\ handles' = handles \cup {"w"}
    /\ pending' = Dumps(Arr(cleaned_entries))
    /\ pc' = "dump"
    /\ UNCHANGED <<fsvars, shvars, stdout, calls, har_data, entries, idx,
                   cleaned_entries, err, errat>>

\* line 24: open(input_file, 'w') succeeds and truncates the file
OpenWriteOk ==
    /\ pc = "open_w"
    /\ opens' = opens + 1
    /\ handles' = handles \cup {"w"}
    /\ file' = <<>>
    /\ pending' = Dumps(Arr(cleaned_entries))
    /\ pc' = "dump"
    /\ UNCHANGED <<file0, shvars, stdout, calls, har_data, entries, idx,
                   cleaned_entries, err, errat>>

\* line 24: open(input_file, 'w') raises OSError; nothing is truncated
OpenWriteFail ==
    /\ pc = "open_w"
    /\ opens' = opens + 1
    /\ err' = "OSError"
    /\ errat' = "open_w"
    /\ pc' = "raised"
    /\ UNCHANGED <<fsvars, shvars, stdout, calls, handles, locals>>

\* line 25: json.dump writes the next piece of the text
DumpWrite ==
    /\ pc = "dump"
    /\ pending # <<>>
    /\ file' = Append(file, Head(pending))
    /\ pending' = Tail(pending)
    /\ UNCHANGED <<file0, shvars, pc, stdout, calls, opens, handles, har_data, entries,
                   idx, cleaned_entries, err, errat>>

\* line 25: a write raises OSError (disk full, I/O error) inside the with block
DumpFail ==
    /\ pc = "dump"
    /\ pending # <<>>
    /\ err' = "OSError"
    /\ errat' = "dump"
    /\ pc' = "unwind"
    /\ UNCHANGED <<fsvars, shvars, stdout, calls, opens, handles, locals>>

\* lines 24-25: the with block ends normally, closes the write handle, and
\* clean_har returns
CloseWrite ==
    /\ pc = "dump"
    /\ pending = <<>>
    /\ handles' = handles \ {"w"}
    /\ pc' = "returned"
    /\ UNCHANGED <<fsvars, shvars, stdout, calls, opens, locals, err, errat>>

\* line 35 was the last statement: the interpreter exits with code 0
ExitOk ==
    /\ pc = "returned"
    /\ exits' = Append(exits, 0)
    /\ pc' = "exited"
    /\ UNCHANGED <<fsvars, run, argc, stdout, calls, opens, handles, locals, err, errat>>

\* line 35: the exception is not caught; the interpreter exits with code 1
ExitRaised ==
    /\ pc = "raised"
    /\ exits' = Append(exits, 1)
    /\ pc' = "exited"
    /\ UNCHANGED <<fsvars, run, argc, stdout, calls, opens, handles, locals, err, errat>>

Next ==
    \/ \E n \in 1..MaxArgc : Invoke(n)
    \/ MainUsage
    \/ MainCall
    \/ OpenReadOk
    \/ OpenReadFail
    \/ LoadOk
    \/ LoadFail
    \/ CloseRead
    \/ Unwind
    \/ GetEntriesOk
    \/ GetEntriesRaise
    \/ LoopContinue
    \/ LoopAppend
    \/ LoopRaise
    \/ LoopDone
    \/ OpenWriteOk
    \/ OpenWriteFail
    \/ DumpWrite
    \/ DumpFail
    \/ CloseWrite
    \/ ExitOk
    \/ ExitRaised

Spec == Init /\ [][Next]_vars

(* ------------------------------------------------- reading the run back *)
\* the document the file held when the invocation started
InputOk == Loads(file0).ok
InputDoc == Loads(file0).v

\* the invocation has ended
Exited == pc = "exited" /\ Len(exits) = run
ExitCode == exits[run]
\* clean_har was called and returned
Succeeded == Exited /\ calls = 1 /\ err = "none"
\* no open() and no write failed in this invocation
NoIOFailure == errat \notin {"open_r", "open_w", "dump"}

IsStr(v) == v.t = "str"
IsDict(v) == v.t = "obj"
IsList(v) == v.t = "arr"

\* the document is an object whose log is an object whose entries is an array
HasEntriesArray(d) ==
    /\ IsDict(d) /\ HasKey(d, <<"log">>)
    /\ IsDict(Lookup(d, <<"log">>)) /\ HasKey(Lookup(d, <<"log">>), <<"entries">>)
    /\ IsList(Lookup(Lookup(d, <<"log">>), <<"entries">>))
InputEntries == Lookup(Lookup(InputDoc, <<"log">>), <<"entries">>).items

HasRequest(e) == IsDict(e) /\ HasKey(e, <<"request">>) /\ IsDict(Lookup(e, <<"request">>))
HasField(e, f) == HasRequest(e) /\ HasKey(Lookup(e, <<"request">>), f)
FieldOf(e, f) == Lookup(Lookup(e, <<"request">>), f)
WellFormed(e) ==
    /\ HasField(e, <<"method">>) /\ IsStr(FieldOf(e, <<"method">>))
    /\ HasField(e, <<"url">>) /\ IsStr(FieldOf(e, <<"url">>))
IsGet(e) == HasField(e, <<"method">>) /\ FieldOf(e, <<"method">>) = Str(GET)

\* the URLs of the GET entries of es, in order
GetUrls(es) ==
    LET gets == SelectSeq(es, IsGet) IN [k \in 1..Len(gets) |-> FieldOf(gets[k], <<"url">>)]

IsPrefix(a, b) == Len(a) <= Len(b) /\ SubSeq(b, 1, Len(a)) = a
EmptyArrayText == <<P("["), P("]")>>
EndsInFavicon(v) == IsStr(v) /\ LastSegment(v.s) = FAVICON

(* ------------------------------------------------------------------ C1 *)
\* C1: for an input whose log.entries is a sequence of well-formed entries,
\* after a successful run the file holds exactly the URLs of the entries whose
\* method is exactly "GET", in input order, duplicates kept; the text written
\* is the JSON array of them and parses back to them.
C1_OutputIsGetUrls ==
    (Succeeded /\ InputOk /\ HasEntriesArray(InputDoc)
        /\ \A k \in 1..Len(InputEntries) : WellFormed(InputEntries[k]))
    => /\ file = Dumps(Arr(GetUrls(InputEntries)))
       /\ Loads(file).ok
       /\ Loads(file).v = Arr(GetUrls(InputEntries))

\* a successful run over well-formed entries that kept a GET entry and dropped
\* one whose method differs from "GET" only by case
C1_Witness ==
    /\ Succeeded /\ InputOk /\ HasEntriesArray(InputDoc)
    /\ \A k \in 1..Len(InputEntries) : WellFormed(InputEntries[k])
    /\ \E k \in 1..Len(InputEntries) : FieldOf(InputEntries[k], <<"method">>) = Str(<<"get">>)
    /\ \E k \in 1..Len(InputEntries) : IsGet(InputEntries[k])
    /\ Len(Loads(file).v.items) = 1

(* ------------------------------------------------------------------ C2 *)
\* C2: after any successful run no URL in the output file has favicon.ico as
\* its last /-delimited segment.
C2_NoFaviconInOutput ==
    (Succeeded /\ Loads(file).ok)
    => \A k \in 1..Len(Loads(file).v.items) : ~EndsInFavicon(Loads(file).v.items[k])

(* ------------------------------------------------------------------ C3 *)
\* the document is an object without log, or with a log without entries, or
\* with an empty entries array
NoEntries(d) ==
    /\ IsDict(d)
    /\ \/ ~HasKey(d, <<"log">>)
       \/ IsDict(Lookup(d, <<"log">>)) /\ ~HasKey(Lookup(d, <<"log">>), <<"entries">>)
       \/ HasEntriesArray(d) /\ Lookup(Lookup(d, <<"log">>), <<"entries">>).items = <<>>

\* C3: when the parsed document has no log, or no entries, or empty entries,
\* the run raises no error of its own (only an open() or a write can fail),
\* reaches the write stage with an empty output list, and on completion the
\* file holds the empty JSON array.
C3_MissingMeansEmpty ==
    (run >= 1 /\ calls = 1 /\ InputOk /\ NoEntries(InputDoc))
    => /\ NoIOFailure => err = "none"
       /\ pc \in {"open_w", "dump", "returned"} => cleaned_entries = <<>>
       /\ Succeeded => file = EmptyArrayText /\ ExitCode = 0

\* a completed run on a document without a log key
C3_Witness ==
    /\ Succeeded /\ InputOk /\ IsDict(InputDoc) /\ ~HasKey(InputDoc, <<"log">>)
    /\ file = EmptyArrayText /\ file0 # file

(* ------------------------------------------------------------------ C4 *)
\* C4: an error raised before the write stage (open for reading, JSON parse,
\* a lookup in an entry) leaves the file as it was and the file is never
\* opened for writing; up to the opening for writing the file is untouched.
C4_EarlyErrorKeepsFile ==
    /\ (err # "none" /\ errat \in {"open_r", "load", "entries", "loop"})
        => file = file0 /\ "w" \notin handles /\ opens <= 1 /\ pending = <<>>
    /\ pc \in {"main", "open_r", "load", "close_r", "entries", "loop", "open_w"}
        => file = file0

\* a run aborted by a lookup error after an earlier entry was accepted
C4_Witness ==
    /\ Exited /\ err = "KeyError" /\ errat = "loop"
    /\ cleaned_entries # <<>> /\ file = file0

(* ------------------------------------------------------------------ C5 *)
\* the entry lacks request, request.method or request.url
Malformed(e) == ~HasField(e, <<"method">>) \/ ~HasField(e, <<"url">>)
\* the entry lacks a field the loop body looks up: request or request.method,
\* or request.url when its method is "GET"
LacksLookedUp(e) == ~HasField(e, <<"method">>) \/ (IsGet(e) /\ ~HasField(e, <<"url">>))

\* C5 as stated: a malformed entry anywhere in log.entries, whatever its
\* method, makes the run abort with a key-lookup error.
C5_AnyMalformedAborts ==
    (Exited /\ calls = 1 /\ NoIOFailure /\ InputOk /\ HasEntriesArray(InputDoc)
        /\ \E k \in 1..Len(InputEntries) : Malformed(InputEntries[k]))
    => err = "KeyError"

\* C5, amended: an entry that lacks request or request.method, or that has
\* method "GET" and lacks request.url, makes the run abort with KeyError at
\* whatever position it stands, with the file untouched; when the only
\* malformed entries are non-GET entries lacking request.url, they are passed
\* over and the run raises nothing.
C5_LookedUpFieldAborts ==
    (Exited /\ calls = 1 /\ NoIOFailure /\ InputOk /\ HasEntriesArray(InputDoc))
    => IF \E k \in 1..Len(InputEntries) : LacksLookedUp(InputEntries[k])
       THEN err = "KeyError" /\ errat = "loop" /\ ExitCode = 1 /\ file = file0
       ELSE err = "none"

\* a run aborted at a second entry that is a GET without url
C5_Witness ==
    /\ Exited /\ err = "KeyError" /\ InputOk /\ HasEntriesArray(InputDoc)
    /\ Len(InputEntries) = 2
    /\ ~Malformed(InputEntries[1])
    /\ IsGet(InputEntries[2]) /\ ~HasField(InputEntries[2], <<"url">>)

(* ------------------------------------------------------------------ C6 *)
\* the file is a JSON array of strings
AlreadyCleaned(text) ==
    /\ Loads(text).ok /\ IsList(Loads(text).v)
    /\ \A k \in 1..Len(Loads(text).v.items) : IsStr(Loads(text).v.items[k])
\* this invocation calls clean_har and follows one that cleaned the file
SecondClean == run >= 2 /\ exits[run - 1] = 0 /\ calls = 1

\* C6 as stated: the second run on a cleaned file completes and leaves [].
C6_SecondRunWritesEmpty ==
    (Exited /\ SecondClean /\ NoIOFailure) => (ExitCode = 0 /\ file = EmptyArrayText)

\* C6, amended: the second run finds a cleaned file (a JSON array of strings);
\* unless an open() fails first it raises AttributeError at the lookup of line
\* 15, before the file is opened for writing; it exits with code 1 and leaves
\* the file holding the first run's array.
C6_SecondRunRaises ==
    SecondClean
    => /\ AlreadyCleaned(file0)
       /\ file = file0
       /\ Exited => ExitCode = 1
       /\ (Exited /\ NoIOFailure) => (err = "AttributeError" /\ errat = "entries")

\* a second run that raised on a non-empty cleaned file
C6_Witness ==
    /\ Exited /\ run = 2 /\ exits = <<0, 1>> /\ calls = 1
    /\ err = "AttributeError" /\ file # EmptyArrayText /\ AlreadyCleaned(file)

(* ------------------------------------------------------------------ C7 *)
\* C7: with an argument count other than one the program prints the usage
\* message, exits with code 1 and never calls clean_har nor opens the file;
\* with exactly one argument it calls clean_har once, prints nothing, and
\* exits with code 0 when the call raises nothing.
C7_UsageOrCall ==
    run >= 1
    => /\ argc # 2 => /\ calls = 0 /\ opens = 0 /\ handles = {} /\ file = file0
                      /\ Exited => (ExitCode = 1 /\ stdout = <<USAGE>>)
       /\ argc = 2 => /\ calls <= 1 /\ stdout = <<>>
                      /\ Exited => calls = 1
                      /\ (Exited /\ err = "none") => ExitCode = 0

\* an invocation with two arguments that has exited
C7_Witness == Exited /\ argc = 3 /\ ExitCode = 1 /\ stdout = <<USAGE>>

(* ------------------------------------------------------------------ C8 *)
\* C8: at most one handle is open at any time; the read handle is closed
\* before the entries are looked up and before the write handle is opened;
\* once clean_har has returned or raised, no handle is open.
C8_HandlesReleased ==
    /\ Cardinality(handles) <= 1
    /\ pc \in {"entries", "loop", "open_w", "dump", "returned"} => "r" \notin handles
    /\ pc \in {"idle", "main", "open_r", "returned", "raised", "exited"} => handles = {}
    /\ pc = "load" => handles = {"r"}
    /\ pc = "dump" => handles = {"w"}

\* clean_har has raised from inside the write block, after both handles had
\* been opened in turn
C8_Witness == pc = "raised" /\ errat = "dump" /\ opens = 2 /\ handles = {}

(* ------------------------------------------------------------------ C9 *)
\* C9: the overwrite truncates and then writes: from the opening for writing
\* on, the file no longer holds the original text, and a failed write leaves a
\* proper prefix of the output (empty or partial), neither the original nor the
\* complete array; nothing restores the original.
C9_TruncateThenWrite ==
    /\ (pc \in {"dump", "returned"} \/ errat = "dump")
        => file # file0 /\ IsPrefix(file, Dumps(Arr(cleaned_entries)))
    /\ errat = "dump"
        => file # Dumps(Arr(cleaned_entries)) /\ ~Loads(file).ok

\* a run that ended in a failed write with part of the array on disk
C9_Witness ==
    /\ Exited /\ errat = "dump" /\ err = "OSError"
    /\ file # <<>> /\ file # file0 /\ file # Dumps(Arr(cleaned_entries))

(* ----------------------------------------------------------------- C10 *)
\* number of iterated entries whose method is "GET"
GetCount == Cardinality({k \in 1..Len(entries) : IsGet(entries[k])})

\* C10: the favicon branch of line 20 is never taken; in every successful run
\* the number of URLs written is the number of entries whose method is "GET",
\* and a GET entry whose URL ends in /favicon.ico has its URL in the output.
C10_FaviconBranchDead ==
    /\ (pc = "loop" /\ idx <= Len(entries)) => EntryOutcome(entries[idx]).at # 20
    /\ (Succeeded /\ Loads(file).ok)
        => /\ Len(Loads(file).v.items) = GetCount
           /\ \A k \in 1..Len(entries) :
                (IsGet(entries[k]) /\ HasField(entries[k], <<"url">>)
                    /\ EndsInFavicon(FieldOf(entries[k], <<"url">>)))
                => \E j \in 1..Len(Loads(file).v.items) :
                       Loads(file).v.items[j] = FieldOf(entries[k], <<"url">>)

\* a successful run whose output holds a URL ending in /favicon.ico
C10_Witness ==
    /\ Succeeded /\ Loads(file).ok /\ GetCount >= 1
    /\ \E j \in 1..Len(Loads(file).v.items) : EndsInFavicon(Loads(file).v.items[j])
====
